---- MODULE Spec2Model ----
(***************************************************************************)
(* Model of the analytics dashboard component (App.jsx): the React state   *)
(* of App, the memoised statistics it derives from the dataset, and the    *)
(* trainModel click handler, step by step.                                 *)
(*                                                                         *)
(* The analysis library imported from ./lib/data and ./lib/models is not   *)
(* part of the available sources; its functions are modelled from the      *)
(* written specification (sections 3, 4 and 7) and are marked as such.     *)
(***************************************************************************)
EXTENDS Integers, Sequences, FiniteSets, TLC

(***************************************************************************)
(* Bounds of the model.                                                    *)
(***************************************************************************)
MaxRows == 6        \* longest dataset explored
MaxMixed == 4       \* longest dataset explored in every order of its records
MaxRuns == 2        \* number of clicks on "Train Model" explored

(***************************************************************************)
(* JavaScript values.  A missing numeric field (null / undefined) is the   *)
(* value NULL, which lies outside the range of every numeric field; a      *)
(* missing categorical field is NOKEY.                                     *)
(***************************************************************************)
NULL == -1
NOKEY == "null"

IsNumeric(v) == v # NULL

(***************************************************************************)
(* The records a dataset is made of.  sampleData is an opaque input of the *)
(* component: an ordered sequence of records with the fields the component *)
(* reads.  The third record has missing fields.                            *)
(***************************************************************************)
RecordPool ==
  { [category |-> "A",   region |-> "N",   revenue |-> 3,
     customers |-> 1,    satisfaction |-> 2, marketShare |-> 1],
    [category |-> "B",   region |-> "S",   revenue |-> 2,
     customers |-> 2,    satisfaction |-> 1, marketShare |-> 1],
    [category |-> NOKEY, region |-> "N",   revenue |-> 4,
     customers |-> NULL, satisfaction |-> 1, marketShare |-> 1] }

SeqsUpTo(S, n) == UNION { [1..m -> S] : m \in 0..n }

RecordKind(record) ==
  IF record.category = "A" THEN 1 ELSE IF record.category = "B" THEN 2 ELSE 3

\* The records of the dataset are grouped by kind: complete "A" records, then
\* complete "B" records, then records with missing fields.
Grouped(records) ==
  \A i \in 1..(Len(records) - 1) : RecordKind(records[i]) <= RecordKind(records[i + 1])

\* Every dataset of up to MaxMixed records, and the grouped datasets of up to
\* MaxRows records.
Datasets ==
  SeqsUpTo(RecordPool, MaxMixed)
     \cup { records \in SeqsUpTo(RecordPool, MaxRows) : Grouped(records) }

(***************************************************************************)
(* Small helpers on sequences and sets.                                    *)
(***************************************************************************)
Range(s) == { s[i] : i \in DOMAIN s }

RECURSIVE SumSeq(_)
SumSeq(s) == IF s = <<>> THEN 0 ELSE Head(s) + SumSeq(Tail(s))

SelectRows(s, idx) == SelectSeq([i \in DOMAIN s |-> <<i, s[i]>>],
                                LAMBDA p : p[1] \in idx)

Rows(s, idx) == [i \in DOMAIN SelectRows(s, idx) |-> SelectRows(s, idx)[i][2]]

(***************************************************************************)
(* ./lib/data : groupBy(records, groupField, valueField, 'sum').           *)
(* Records whose group field is missing are left out; a missing value      *)
(* contributes nothing to the sum; the groups appear in the order of their *)
(* first record and are then sorted, stably, descending by value.          *)
(***************************************************************************)
RECURSIVE GroupKeys(_, _)
GroupKeys(records, groupField) ==
  IF records = <<>> THEN <<>>
  ELSE LET rest == GroupKeys(SubSeq(records, 1, Len(records) - 1), groupField)
           key  == records[Len(records)][groupField]
       IN  IF key = NOKEY \/ key \in Range(rest) THEN rest
           ELSE Append(rest, key)

GroupSum(records, groupField, valueField, key) ==
  SumSeq([i \in DOMAIN records |->
            IF records[i][groupField] = key /\ IsNumeric(records[i][valueField])
            THEN records[i][valueField] ELSE 0])

RECURSIVE InsertDesc(_, _)
InsertDesc(sorted, g) ==
  IF sorted = <<>> THEN <<g>>
  ELSE IF g.value > Head(sorted).value THEN <<g>> \o sorted
  ELSE <<Head(sorted)>> \o InsertDesc(Tail(sorted), g)

RECURSIVE SortDesc(_)
SortDesc(groups) ==
  IF groups = <<>> THEN <<>>
  ELSE InsertDesc(SortDesc(SubSeq(groups, 1, Len(groups) - 1)),
                  groups[Len(groups)])

groupBy(records, groupField, valueField) ==
  LET keys == GroupKeys(records, groupField)
  IN  SortDesc([i \in DOMAIN keys |->
                  [name  |-> keys[i],
                   value |-> GroupSum(records, groupField, valueField, keys[i])]])

(***************************************************************************)
(* ./lib/data : calculateStatistics(records, field).  The summary is taken *)
(* over the records with a defined numeric value for the field.  Numbers   *)
(* that need not be integers are kept as fractions num / den; stdDev is    *)
(* kept by its square, the population variance.  With no defined value the *)
(* summary has count 0 and its mean, median, stdDev, min and max are       *)
(* undefined.                                                              *)
(***************************************************************************)
Undefined == [undefined |-> TRUE]

Number(num, den) == [num |-> num, den |-> den]

DefinedValues(records, field) ==
  LET all == [i \in DOMAIN records |-> records[i][field]]
  IN  SelectSeq(all, IsNumeric)

RECURSIVE InsertAsc(_, _)
InsertAsc(sorted, v) ==
  IF sorted = <<>> THEN <<v>>
  ELSE IF v < Head(sorted) THEN <<v>> \o sorted
  ELSE <<Head(sorted)>> \o InsertAsc(Tail(sorted), v)

RECURSIVE SortAsc(_)
SortAsc(values) ==
  IF values = <<>> THEN <<>>
  ELSE InsertAsc(SortAsc(Tail(values)), Head(values))

calculateStatistics(records, field) ==
  LET values  == DefinedValues(records, field)
      n       == Len(values)
      sorted  == SortAsc(values)
      sum     == SumSeq(values)
      squares == SumSeq([i \in DOMAIN values |-> values[i] * values[i]])
  IN  IF n = 0
      THEN [count |-> 0, sum |-> 0, mean |-> Undefined, median |-> Undefined,
            stdDev |-> Undefined, min |-> Undefined, max |-> Undefined]
      ELSE [count  |-> n,
            sum    |-> sum,
            mean   |-> Number(sum, n),
            median |-> IF n % 2 = 1 THEN Number(2 * sorted[(n + 1) \div 2], 2)
                       ELSE Number(sorted[n \div 2] + sorted[n \div 2 + 1], 2),
            stdDev |-> Number(n * squares - sum * sum, n * n),
            min    |-> Number(sorted[1], 1),
            max    |-> Number(sorted[n], 1)]

(***************************************************************************)
(* ./lib/models : the Predictor contract.  An instance is untrained after  *)
(* construction and trained after fit.  The learned parameters are a       *)
(* function of the training set alone; they are represented by the         *)
(* training set that determines them.                                      *)
(***************************************************************************)
NoParams == [X |-> <<>>, y |-> <<>>]

Learn(X, y) == [X |-> X, y |-> y]

new(kind, id) == [id |-> id, kind |-> kind, fitted |-> FALSE, params |-> NoParams]

NoModel == [id |-> 0, kind |-> "none", fitted |-> FALSE, params |-> NoParams]

Rectangular(X) == \A i, j \in DOMAIN X : Len(X[i]) = Len(X[j])

NumericOnly(X, y) ==
  /\ \A i \in DOMAIN X : \A c \in DOMAIN X[i] : IsNumeric(X[i][c])
  /\ \A i \in DOMAIN y : IsNumeric(y[i])

\* fit(X, y): validates its input, then overwrites the instance's parameters.
fit(m, X, y) ==
  LET raised == IF Len(X) = 0 THEN "InsufficientData"
                ELSE IF Len(X) # Len(y) \/ ~Rectangular(X) THEN "DimensionMismatch"
                ELSE IF ~NumericOnly(X, y) THEN "InvalidParameter"
                ELSE "none"
  IN  [raised |-> raised,
       model  |-> IF raised = "none"
                  THEN [m EXCEPT !.fitted = TRUE, !.params = Learn(X, y)]
                  ELSE m]

\* predict(X): side-effect free; one prediction per row, an error before fit.
predict(m, X) ==
  IF ~m.fitted
  THEN [raised |-> "NotFitted", value |-> <<>>]
  ELSE [raised |-> "none",
        value  |-> [i \in DOMAIN X |-> [kind |-> m.kind, row |-> X[i]]]]

\* evaluateRegression(actual, predicted): {r2, rmse, mae} over n pairs.
evaluateRegression(actual, predicted) ==
  IF Len(actual) # Len(predicted)
  THEN [raised |-> "DimensionMismatch", value |-> [n |-> 0]]
  ELSE [raised |-> "none", value |-> [n |-> Len(actual)]]

(***************************************************************************)
(* crossValidate(model, X, y, k): k contiguous folds; fold i holds out the *)
(* rows FoldRows(n, k, i) and scores a fresh instance of the model's kind  *)
(* fitted on the other rows.  The instance passed in is only read.         *)
(***************************************************************************)
\* FoldRows with every fold of size floor(n / k): the last n mod k rows are
\* never held out.
FoldRows_Truncating(n, k, i) ==
  { r \in 1..n : (i - 1) * (n \div k) < r /\ r <= i * (n \div k) }

FoldRows(n, k, i) == { r \in 1..n : ((i - 1) * n) \div k < r /\ r <= (i * n) \div k }

FoldScore(m, X, y, k, i) ==
  LET held  == FoldRows(Len(X), k, i)
      train == (1..Len(X)) \ held
      fresh == fit(new(m.kind, 0), Rows(X, train), Rows(y, train)).model
  IN  [heldOut   |-> held,
       trainedOn |-> train,
       scored    |-> Len(predict(fresh, Rows(X, held)).value)]

\* crossValidate that refits the instance it was given on each fold's
\* training rows instead of a fresh one.
crossValidate_Refit(m, X, y, k) ==
  IF k < 2 \/ k > Len(X)
  THEN [raised |-> "InvalidParameter", value |-> [perFold |-> <<>>], model |-> m]
  ELSE IF ~m.fitted
  THEN [raised |-> "NotFitted", value |-> [perFold |-> <<>>], model |-> m]
  ELSE [raised |-> "none",
        value  |-> [perFold |-> [i \in 1..k |-> FoldScore(m, X, y, k, i)]],
        model  |-> LET train == (1..Len(X)) \ FoldRows(Len(X), k, k)
                   IN  fit(m, Rows(X, train), Rows(y, train)).model]

crossValidate(m, X, y, k) ==
  IF k < 2 \/ k > Len(X)
  THEN [raised |-> "InvalidParameter", value |-> [perFold |-> <<>>], model |-> m]
  ELSE IF ~m.fitted
  THEN [raised |-> "NotFitted", value |-> [perFold |-> <<>>], model |-> m]
  ELSE [raised |-> "none",
        value  |-> [perFold |-> [i \in 1..k |-> FoldScore(m, X, y, k, i)]],
        model  |-> m]

\* calculateFeatureImportance(model, X, y, featureNames): re-predicts with
\* the fitted model, one entry per feature; the model is only read.
calculateFeatureImportance(m, X, y, featureNames) ==
  IF \E i \in DOMAIN X : Len(X[i]) # Len(featureNames)
  THEN [raised |-> "DimensionMismatch", value |-> <<>>]
  ELSE IF predict(m, X).raised # "none"
  THEN [raised |-> predict(m, X).raised, value |-> <<>>]
  ELSE [raised |-> "none",
        value  |-> [i \in DOMAIN featureNames |-> [feature |-> featureNames[i]]]]

(***************************************************************************)
(* State of the component.                                                 *)
(*   data            sampleData, fixed for the life of the component       *)
(*   mounted         the first render has happened                         *)
(*   revenueStats, customerStats, satisfactionStats, categoryData,         *)
(*   regionData      the useMemo values                                    *)
(*   activeTab, selectedModel, modelResults, isTraining                    *)
(*                   the useState values as rendered                       *)
(*   crashed         a render has thrown and the component is unmounted    *)
(*   pending         state updates queued by the setters, per hook         *)
(*   pc              position of the running trainModel call               *)
(*   X, y, model, predictions, evaluation, cvResults, importance, error    *)
(*                   the locals of the running trainModel call             *)
(*   console         what console.error has written                        *)
(*   run, nextId     number of trainModel calls and of objects allocated   *)
(*   calls, fits, viewBefore, failed           history of the current run  *)
(***************************************************************************)
VARIABLES data, mounted, categoryData, regionData,
          revenueStats, customerStats, satisfactionStats,
          activeTab, selectedModel, modelResults, isTraining, pending, crashed,
          pc, X, y, model, predictions, evaluation, cvResults, importance,
          error, console, run, nextId, calls, fits, viewBefore, failed

memos  == <<data, mounted, categoryData, regionData,
            revenueStats, customerStats, satisfactionStats>>
hooks  == <<activeTab, selectedModel, modelResults, isTraining>>
locals == <<X, y, model, predictions, evaluation, cvResults, importance, error>>
ghost  == <<calls, fits, viewBefore, failed>>
vars   == <<memos, hooks, pending, crashed, pc, locals, console, run, nextId, ghost>>

\* The values the <select> change handler may store: the two options of the
\* select and one string that is none of the switch's cases.
ModelKinds == {"linear", "tree", "forest"}

\* The number of folds trainModel asks for.
CVFolds == 5

\* The feature names trainModel passes along.
featureNames == <<"Customers", "Satisfaction", "Market Share">>

NoResults == [present |-> FALSE]

\* The values of the four tab triggers.
Tabs == {"overview", "analysis", "modeling", "insights"}

NoPending == [activeTab |-> <<>>, isTraining |-> <<>>, modelResults |-> <<>>,
              selectedModel |-> <<>>]

NoCV == [perFold |-> <<>>]

\* What the rendered page shows of the component's state.
View == [activeTab |-> activeTab, isTraining |-> isTraining,
         modelResults |-> modelResults, selectedModel |-> selectedModel]

\* Key Insights: the entries reported as the highest performing category and
\* the region with the highest customer concentration.
HighestCategory_Last == categoryData[Len(categoryData)]

HighestCategory == categoryData[1]

HighestRegion == regionData[1]

(***************************************************************************)
(* What rendering a tab's content evaluates.  value.toFixed(digits) is a   *)
(* TypeError when value is undefined.  In `stats?.mean.toFixed(2)` the     *)
(* optional chaining guards a missing summary, not a missing mean;         *)
(* `(stats?.max - stats?.min)` is NaN for undefined operands and           *)
(* NaN.toFixed(2) does not throw.                                          *)
(***************************************************************************)
toFixedRaises(value) == value = Undefined

\* Analysis tab, Statistical Summary: one card per summary.
SummaryCardRaises(stats) ==
  \/ toFixedRaises(stats.mean)
  \/ toFixedRaises(stats.median)
  \/ toFixedRaises(stats.stdDev)

\* Insights tab, Key Insights: revenueStats?.mean.toFixed(2).
KeyInsightsRaises == toFixedRaises(revenueStats.mean)

RenderRaises(tab) ==
  CASE tab = "analysis" -> \/ SummaryCardRaises(revenueStats)
                           \/ SummaryCardRaises(customerStats)
                           \/ SummaryCardRaises(satisfactionStats)
    [] tab = "insights" -> KeyInsightsRaises
    [] OTHER            -> FALSE

\* Insights tab, Model Insights: the model name written next to the results.
ModelInsightsName ==
  IF selectedModel = "linear" THEN "Linear Regression" ELSE "Decision Tree"

NoStats == calculateStatistics(<<>>, "revenue")

Init ==
  /\ data \in Datasets
  /\ mounted = FALSE
  /\ categoryData = <<>>
  /\ regionData = <<>>
  /\ revenueStats = NoStats
  /\ customerStats = NoStats
  /\ satisfactionStats = NoStats
  /\ activeTab = "overview"
  /\ crashed = FALSE
  /\ selectedModel = "linear"
  /\ modelResults = NoResults
  /\ isTraining = FALSE
  /\ pending = NoPending
  /\ pc = "idle"
  /\ X = <<>> /\ y = <<>> /\ model = NoModel
  /\ predictions = <<>> /\ evaluation = [n |-> 0]
  /\ cvResults = NoCV /\ importance = <<>> /\ error = "none"
  /\ console = <<>>
  /\ run = 0
  /\ nextId = 1
  /\ calls = <<>>
  /\ fits = {}
  /\ viewBefore = View
  /\ failed = FALSE

\* The first render: the useMemo values are computed from data.
Mount ==
  /\ ~mounted
  /\ mounted' = TRUE
  /\ revenueStats' = calculateStatistics(data, "revenue")
  /\ customerStats' = calculateStatistics(data, "customers")
  /\ satisfactionStats' = calculateStatistics(data, "satisfaction")
  /\ categoryData' = groupBy(data, "category", "revenue")
  /\ regionData' = groupBy(data, "region", "customers")
  /\ UNCHANGED <<data, hooks, pending, crashed, pc, locals, console, run, nextId,
                 ghost>>

\* The latest value queued for a hook, or its current value.
Latest(queue, current) == IF queue = <<>> THEN current ELSE queue[Len(queue)]

\* A re-render: possible only while no handler is running; it applies the
\* queued updates of every hook and evaluates the content of the active tab.
\* If that throws, React unmounts the component (there is no error boundary).
Render ==
  /\ mounted
  /\ ~crashed
  /\ pc = "idle"
  /\ pending # NoPending
  /\ activeTab' = Latest(pending.activeTab, activeTab)
  /\ crashed' = RenderRaises(activeTab')
  /\ isTraining' = Latest(pending.isTraining, isTraining)
  /\ modelResults' = Latest(pending.modelResults, modelResults)
  /\ selectedModel' = Latest(pending.selectedModel, selectedModel)
  /\ pending' = NoPending
  /\ UNCHANGED <<memos, pc, locals, console, run, nextId, ghost>>

\* onValueChange of the tabs: setActiveTab.
setActiveTab ==
  /\ mounted
  /\ ~crashed
  /\ pc = "idle"
  /\ pending = NoPending
  /\ \E value \in Tabs \ {activeTab} :
        pending' = [pending EXCEPT !.activeTab = Append(@, value)]
  /\ UNCHANGED <<memos, hooks, crashed, pc, locals, console, run, nextId, ghost>>

\* onChange of the model <select>, which is part of the ML Models tab.
SelectModel ==
  /\ mounted
  /\ ~crashed
  /\ activeTab = "modeling"
  /\ pc = "idle"
  /\ pending = NoPending
  /\ \E value \in ModelKinds \ {selectedModel} :
        pending' = [pending EXCEPT !.selectedModel = Append(@, value)]
  /\ UNCHANGED <<memos, crashed, hooks, pc, locals, console, run, nextId, ghost>>

(***************************************************************************)
(* trainModel.  The function is declared async but awaits nothing, so a    *)
(* call runs from its first statement to its last without returning to the *)
(* event loop: while pc # "idle" no other handler and no render can run.   *)
(***************************************************************************)

\* The try block with predict written before fit.
After_PredictFirst(step) ==
  CASE step = "prepare"                    -> "construct"
    [] step = "construct"                  -> "predict"
    [] step = "predict"                    -> "fit"
    [] step = "fit"                        -> "evaluateRegression"
    [] step = "evaluateRegression"         -> "crossValidate"
    [] step = "crossValidate"              -> "calculateFeatureImportance"
    [] step = "calculateFeatureImportance" -> "publish"
    [] step = "publish"                    -> "finally"

\* The try block with setModelResults written right after the evaluation,
\* before cross-validation and feature importance.
After_PublishEarly(step) ==
  CASE step = "prepare"                    -> "construct"
    [] step = "construct"                  -> "fit"
    [] step = "fit"                        -> "predict"
    [] step = "predict"                    -> "evaluateRegression"
    [] step = "evaluateRegression"         -> "publish"
    [] step = "publish"                    -> "crossValidate"
    [] step = "crossValidate"              -> "calculateFeatureImportance"
    [] step = "calculateFeatureImportance" -> "finally"

\* The statement that follows a statement of the try block that did not throw.
After(step) ==
  CASE step = "prepare"                    -> "construct"
    [] step = "construct"                  -> "fit"
    [] step = "fit"                        -> "predict"
    [] step = "predict"                    -> "evaluateRegression"
    [] step = "evaluateRegression"         -> "crossValidate"
    [] step = "crossValidate"              -> "calculateFeatureImportance"
    [] step = "calculateFeatureImportance" -> "publish"
    [] step = "publish"                    -> "finally"

\* The identity of the object a `new` expression allocates.
NewId == nextId

\* onClick of the Train Model button of the ML Models tab, which is disabled
\* while isTraining is rendered true: setIsTraining(true) and entry into the
\* try block.
trainModel ==
  /\ mounted
  /\ ~crashed
  /\ activeTab = "modeling"
  /\ pc = "idle"
  /\ pending = NoPending
  /\ ~isTraining
  /\ run < MaxRuns
  /\ run' = run + 1
  /\ pending' = [pending EXCEPT !.isTraining = Append(@, TRUE)]
  /\ pc' = "prepare"
  /\ calls' = <<>>
  /\ viewBefore' = View
  /\ failed' = FALSE
  /\ UNCHANGED <<memos, crashed, hooks, locals, console, nextId, fits>>

\* const X = data.map(...); const y = data.map(...)
StepPrepare ==
  /\ pc = "prepare"
  /\ X' = [i \in DOMAIN data |->
             <<data[i].customers, data[i].satisfaction, data[i].marketShare>>]
  /\ y' = [i \in DOMAIN data |-> data[i].revenue]
  /\ pc' = After("prepare")
  /\ UNCHANGED <<memos, crashed, hooks, pending, model, predictions, evaluation,
                 cvResults, importance, error, console, run, nextId, ghost>>

\* The switch handing out one Predictor object, allocated once, to every call.
StepConstruct_Shared ==
  /\ pc = "construct"
  /\ model' = CASE selectedModel = "linear" -> new("LinearRegression", 1)
                [] selectedModel = "tree"   -> new("DecisionTree", 1)
                [] OTHER                    -> new("LinearRegression", 1)
  /\ nextId' = nextId + 1
  /\ pc' = After("construct")
  /\ UNCHANGED <<memos, crashed, hooks, pending, X, y, predictions, evaluation,
                 cvResults, importance, error, console, run, ghost>>

\* switch (selectedModel) { ... }
StepConstruct ==
  /\ pc = "construct"
  /\ model' = CASE selectedModel = "linear" -> new("LinearRegression", NewId)
                [] selectedModel = "tree"   -> new("DecisionTree", NewId)
                [] OTHER                    -> new("LinearRegression", NewId)
  /\ nextId' = nextId + 1
  /\ pc' = After("construct")
  /\ UNCHANGED <<memos, crashed, hooks, pending, X, y, predictions, evaluation,
                 cvResults, importance, error, console, run, ghost>>

\* model.fit(X, y)
StepFit ==
  /\ pc = "fit"
  /\ LET r == fit(model, X, y)
     IN  /\ model' = r.model
         /\ error' = r.raised
         /\ pc' = IF r.raised = "none" THEN After("fit") ELSE "catch"
  /\ calls' = Append(calls, "fit")
  /\ fits' = fits \cup {<<model.id, run>>}
  /\ UNCHANGED <<memos, crashed, hooks, pending, X, y, predictions, evaluation,
                 cvResults, importance, console, run, nextId, viewBefore, failed>>

\* const predictions = model.predict(X)
StepPredict ==
  /\ pc = "predict"
  /\ LET r == predict(model, X)
     IN  /\ predictions' = r.value
         /\ error' = r.raised
         /\ pc' = IF r.raised = "none" THEN After("predict") ELSE "catch"
  /\ calls' = Append(calls, "predict")
  /\ UNCHANGED <<memos, crashed, hooks, pending, X, y, model, evaluation,
                 cvResults, importance, console, run, nextId, fits, viewBefore, failed>>

\* const evaluation = evaluateRegression(y, predictions)
StepEvaluate ==
  /\ pc = "evaluateRegression"
  /\ LET r == evaluateRegression(y, predictions)
     IN  /\ evaluation' = r.value
         /\ error' = r.raised
         /\ pc' = IF r.raised = "none" THEN After("evaluateRegression") ELSE "catch"
  /\ calls' = Append(calls, "evaluateRegression")
  /\ UNCHANGED <<memos, crashed, hooks, pending, X, y, model, predictions,
                 cvResults, importance, console, run, nextId, fits, viewBefore, failed>>

\* trainModel asking crossValidate for two folds.
StepCrossValidate_TwoFolds ==
  /\ pc = "crossValidate"
  /\ LET r == crossValidate(model, X, y, 2)
     IN  /\ cvResults' = r.value
         /\ model' = r.model
         /\ error' = r.raised
         /\ pc' = IF r.raised = "none" THEN After("crossValidate") ELSE "catch"
  /\ calls' = Append(calls, "crossValidate")
  /\ UNCHANGED <<memos, crashed, hooks, pending, X, y, predictions, evaluation,
                 importance, console, run, nextId, fits, viewBefore, failed>>

\* const cvResults = crossValidate(model, X, y, 5)
StepCrossValidate ==
  /\ pc = "crossValidate"
  /\ LET r == crossValidate(model, X, y, CVFolds)
     IN  /\ cvResults' = r.value
         /\ model' = r.model
         /\ error' = r.raised
         /\ pc' = IF r.raised = "none" THEN After("crossValidate") ELSE "catch"
  /\ calls' = Append(calls, "crossValidate")
  /\ UNCHANGED <<memos, crashed, hooks, pending, X, y, predictions, evaluation,
                 importance, console, run, nextId, fits, viewBefore, failed>>

\* const importance = calculateFeatureImportance(model, X, y, featureNames)
StepImportance ==
  /\ pc = "calculateFeatureImportance"
  /\ LET r == calculateFeatureImportance(model, X, y, featureNames)
     IN  /\ importance' = r.value
         /\ error' = r.raised
         /\ pc' = IF r.raised = "none" THEN After("calculateFeatureImportance")
                  ELSE "catch"
  /\ calls' = Append(calls, "calculateFeatureImportance")
  /\ UNCHANGED <<memos, crashed, hooks, pending, X, y, model, predictions, evaluation,
                 cvResults, console, run, nextId, fits, viewBefore, failed>>

\* setModelResults({ model: selectedModel, evaluation, ... })
StepPublish ==
  /\ pc = "publish"
  /\ pending' = [pending EXCEPT !.modelResults =
                   Append(@, [present           |-> TRUE,
                              model             |-> selectedModel,
                              evaluation        |-> evaluation,
                              crossValidation   |-> cvResults,
                              featureImportance |-> importance,
                              predictions       |-> SubSeq(predictions, 1,
                                 IF Len(predictions) < 50 THEN Len(predictions) ELSE 50)])]
  /\ pc' = After("publish")
  /\ UNCHANGED <<memos, crashed, hooks, locals, console, run, nextId, ghost>>

\* The catch block of a handler that resets isTraining at the end of its try
\* block instead of in a finally block.
StepCatch_NoFinally ==
  /\ pc = "catch"
  /\ console' = Append(console, error)
  /\ failed' = TRUE
  /\ pc' = "idle"
  /\ X' = <<>> /\ y' = <<>> /\ model' = NoModel
  /\ predictions' = <<>> /\ evaluation' = [n |-> 0]
  /\ cvResults' = NoCV /\ importance' = <<>> /\ error' = "none"
  /\ UNCHANGED <<memos, crashed, hooks, pending, run, nextId, calls, fits, viewBefore>>

\* catch (error) { console.error('Model training failed:', error) }
StepCatch ==
  /\ pc = "catch"
  /\ console' = Append(console, error)
  /\ failed' = TRUE
  /\ pc' = "finally"
  /\ UNCHANGED <<memos, crashed, hooks, pending, locals, run, nextId, calls, fits, viewBefore>>

\* finally { setIsTraining(false) }, and the call returns: its locals die.
StepFinally ==
  /\ pc = "finally"
  /\ pending' = [pending EXCEPT !.isTraining = Append(@, FALSE)]
  /\ pc' = "idle"
  /\ X' = <<>> /\ y' = <<>> /\ model' = NoModel
  /\ predictions' = <<>> /\ evaluation' = [n |-> 0]
  /\ cvResults' = NoCV /\ importance' = <<>> /\ error' = "none"
  /\ UNCHANGED <<memos, crashed, hooks, console, run, nextId, ghost>>

Next ==
  \/ Mount
  \/ Render
  \/ setActiveTab
  \/ SelectModel
  \/ trainModel
  \/ StepPrepare
  \/ StepConstruct
  \/ StepFit
  \/ StepPredict
  \/ StepEvaluate
  \/ StepCrossValidate
  \/ StepImportance
  \/ StepPublish
  \/ StepCatch
  \/ StepFinally

Spec == Init /\ [][Next]_vars

(***************************************************************************)
(* Scheduling.  A JavaScript function that has started runs to its end, so *)
(* the steps of a trainModel call are weakly fair; React renders once      *)
(* updates are queued and no handler runs, so Render is weakly fair.  User *)
(* events (tab change, model selection, click) need not ever happen.       *)
(* Behaviours are explored from the grouped datasets.                      *)
(***************************************************************************)
RunStep ==
  \/ StepPrepare \/ StepConstruct \/ StepFit \/ StepPredict \/ StepEvaluate
  \/ StepCrossValidate \/ StepImportance \/ StepPublish \/ StepCatch
  \/ StepFinally

InitGrouped == Init /\ Grouped(data)

FairSpec == InitGrouped /\ [][Next]_vars /\ WF_vars(RunStep) /\ WF_vars(Render)

TypeOK ==
  /\ data \in Datasets
  /\ mounted \in BOOLEAN
  /\ crashed \in BOOLEAN
  /\ activeTab \in Tabs
  /\ selectedModel \in ModelKinds
  /\ isTraining \in BOOLEAN
  /\ pc \in {"idle", "prepare", "construct", "fit", "predict", "evaluateRegression",
             "crossValidate", "calculateFeatureImportance", "publish", "catch", "finally"}
  /\ run \in 0..MaxRuns
  /\ nextId \in 1..(MaxRuns + 1)

(***************************************************************************)
(* Properties.                                                             *)
(***************************************************************************)
CallOrder == <<"fit", "predict", "evaluateRegression", "crossValidate",
               "calculateFeatureImportance">>

AfterFit == {"predict", "evaluateRegression", "crossValidate",
             "calculateFeatureImportance", "publish"}

AfterCrossValidate == {"calculateFeatureImportance", "publish"}

\* C1: within a run of trainModel the core calls made so far are a prefix of
\* fit, predict, evaluateRegression, crossValidate,
\* calculateFeatureImportance; whenever the run stands at or past predict the
\* instance's fit has completed, and NotFitted is never raised or logged.
C1_FitBeforeUse ==
  /\ \E n \in 0..Len(CallOrder) : calls = SubSeq(CallOrder, 1, n)
  /\ pc \in AfterFit => model.fitted
  /\ error # "NotFitted"
  /\ "NotFitted" \notin Range(console)

\* A run that has made all five calls, in order, and is about to publish.
C1_Witness == pc = "publish" /\ calls = CallOrder /\ model.fitted

C3_MatrixNumericOnly ==
  pc = "fit" => /\ Len(X) = Len(data) /\ Len(y) = Len(data)
                /\ Rectangular(X)
                /\ NumericOnly(X, y)

FoldsPartition(perFold, n, k) ==
  /\ Len(perFold) = k
  /\ \A i, j \in DOMAIN perFold :
        i # j => perFold[i].heldOut \cap perFold[j].heldOut = {}
  /\ UNION { perFold[i].heldOut : i \in DOMAIN perFold } = 1..n
  /\ \A i \in DOMAIN perFold :
        /\ perFold[i].trainedOn = (1..n) \ perFold[i].heldOut
        /\ perFold[i].scored = Cardinality(perFold[i].heldOut)

\* C4: a cross-validation that returned has exactly k fold scores, each
\* computed on its held-out rows by a model trained on all the other rows;
\* the held-out sets are pairwise disjoint and together are all n rows.  It
\* holds of the result trainModel obtained (k = 5), of the result that is
\* rendered, and of crossValidate on the same model and rows for every k
\* from 2 to the row count.
C4_FoldsPartitionRows ==
  /\ pc \in AfterCrossValidate =>
        /\ FoldsPartition(cvResults.perFold, Len(X), CVFolds)
        /\ \A k \in 2..Len(X) :
              /\ crossValidate(model, X, y, k).raised = "none"
              /\ FoldsPartition(crossValidate(model, X, y, k).value.perFold, Len(X), k)
  /\ modelResults.present =>
        FoldsPartition(modelResults.crossValidation.perFold, Len(data), CVFolds)

\* A returned cross-validation over a row count that k does not divide.
C4_Witness ==
  /\ pc = "publish"
  /\ Len(cvResults.perFold) = CVFolds
  /\ Len(X) > CVFolds
  /\ Len(X) % CVFolds # 0

\* C5: when cross-validation has returned, the instance trainModel fitted
\* still carries the parameters learned from the full (X, y), and it is that
\* instance which calculateFeatureImportance receives.
C5_CallerModelKeepsFullFit ==
  pc \in AfterCrossValidate =>
     /\ model.fitted
     /\ model.params = Learn(X, y)

\* Cross-validation has scored its folds on other training sets than the
\* full data and the run is about to call calculateFeatureImportance.
C5_Witness ==
  /\ pc = "calculateFeatureImportance"
  /\ Len(cvResults.perFold) = CVFolds
  /\ \A i \in DOMAIN cvResults.perFold :
        cvResults.perFold[i].trainedOn # 1..Len(X)

\* C6: between the start of a trainModel run and its completion a render
\* has shown isTraining = true; the last statement of the run therefore
\* executes while the rendered isTraining is true.
C6_RenderSeesTraining == pc = "finally" => isTraining

\* C7: after a run in which a core call raised, once the page is rendered
\* again it differs from the page as it was when the run started.
C7_FailureIsVisible ==
  (pc = "idle" /\ pending = NoPending /\ failed) => View # viewBefore

\* C8: no Predictor instance is fitted by two invocations of trainModel, and
\* the instance an invocation is about to fit has not been fitted before.
C8_OneInvocationPerInstance ==
  /\ \A a, b \in fits : a[1] = b[1] => a[2] = b[2]
  /\ pc = "fit" => /\ model # NoModel
                   /\ model.id \notin { f[1] : f \in fits }
                   /\ ~model.fitted

\* Two invocations have each fitted a Predictor.
C8_Witness == run = 2 /\ Cardinality({ f[2] : f \in fits }) = 2

\* C9: with fewer than 5 rows, a run that has made the crossValidate call
\* is in its catch path with InvalidParameter and never proceeds to
\* calculateFeatureImportance, and no model results are queued or rendered.
C9_TooFewRowsRaises ==
  Len(data) < 5 =>
     /\ pc \notin AfterCrossValidate
     /\ (calls # <<>> /\ calls[Len(calls)] = "crossValidate") =>
           /\ pc \in {"catch", "finally", "idle"}
           /\ pc \in {"catch", "finally"} => error = "InvalidParameter"
           /\ pc \in {"finally", "idle"} => failed
     /\ pending.modelResults = <<>>
     /\ modelResults = NoResults

\* A run over one to four valid rows whose crossValidate call has raised.
C9_Witness ==
  /\ Len(data) \in 1..4
  /\ pc = "catch"
  /\ calls = SubSeq(CallOrder, 1, 4)
  /\ error = "InvalidParameter"

SortedDescending(groups) ==
  \A i, j \in DOMAIN groups : i < j => groups[i].value >= groups[j].value

GroupKeySet(groupField) == { data[i][groupField] : i \in DOMAIN data } \ {NOKEY}

\* C10: the memoised group aggregates are sorted descending by value, and
\* the entry reported as the highest performing category (region) is a group
\* of the data whose aggregated value is the maximum over all groups.
C10_FirstGroupIsMaximum ==
  mounted =>
     /\ SortedDescending(categoryData)
     /\ SortedDescending(regionData)
     /\ Len(categoryData) = Cardinality(GroupKeySet("category"))
     /\ Len(regionData) = Cardinality(GroupKeySet("region"))
     /\ categoryData # <<>> =>
           /\ HighestCategory.name \in GroupKeySet("category")
           /\ HighestCategory.value =
                 GroupSum(data, "category", "revenue", HighestCategory.name)
           /\ \A key \in GroupKeySet("category") :
                 GroupSum(data, "category", "revenue", key) <= HighestCategory.value
     /\ regionData # <<>> =>
           /\ HighestRegion.name \in GroupKeySet("region")
           /\ HighestRegion.value =
                 GroupSum(data, "region", "customers", HighestRegion.name)
           /\ \A key \in GroupKeySet("region") :
                 GroupSum(data, "region", "customers", key) <= HighestRegion.value

\* Two categories whose order by value differs from their order in the data.
C10_Witness ==
  /\ mounted
  /\ Len(categoryData) = 2
  /\ data[1].category = "A"
  /\ HighestCategory.name = "B"
  /\ categoryData[1].value > categoryData[2].value

AllStats == {revenueStats, customerStats, satisfactionStats}

\* C11: when no record has a defined numeric value for a field, its summary
\* has count 0 and undefined mean, median, stdDev, min and max, and the
\* dashboard's consumption of the summaries completes without raising: no
\* render throws.
C11_EmptySummaryRendersSafely ==
  mounted =>
     /\ \A stats \in AllStats :
           stats.count = 0 =>
              /\ stats.mean = Undefined /\ stats.median = Undefined
              /\ stats.stdDev = Undefined
              /\ stats.min = Undefined /\ stats.max = Undefined
     /\ (\E stats \in AllStats : stats.count = 0) => ~crashed

\* The value of the isTraining state: the last value set, rendered or not.
StateIsTraining == Latest(pending.isTraining, isTraining)

\* C12: every started trainModel run reaches its end, on the success path
\* and on the path where a step raises, with the isTraining state false and
\* then rendered false; whenever no run is in progress the isTraining state
\* is false, so the Train button is not left disabled.
C12_RunEndsNotTraining ==
  /\ [](pc = "idle" => ~StateIsTraining)
  /\ (pc # "idle") ~> (pc = "idle" /\ ~StateIsTraining)
  /\ (pc # "idle") ~> (pc = "idle" /\ pending = NoPending /\ ~isTraining)

\* A run in which a step raised has just returned: true then false are queued
\* for isTraining.
C12_Witness ==
  /\ pc = "idle"
  /\ failed
  /\ pending.isTraining = <<TRUE, FALSE>>

\* The value of the modelResults state: the last value set, rendered or not.
StateModelResults == Latest(pending.modelResults, modelResults)

CompleteResults(results) ==
  /\ results.present
  /\ results.model \in ModelKinds
  /\ results.evaluation.n = Len(data)
  /\ Len(results.crossValidation.perFold) = CVFolds
  /\ Len(results.featureImportance) = Len(featureNames)
  /\ Len(results.predictions) = IF Len(data) < 50 THEN Len(data) ELSE 50

KindName(kind) ==
  IF kind = "linear" THEN "Linear Regression"
  ELSE IF kind = "tree" THEN "Decision Tree"
  ELSE kind

\* C14: whenever the Insights tab shows model results, the model name
\* written in Model Insights is the name of the kind recorded in those
\* results.
C14_ShownNameIsResultsModel ==
  (mounted /\ ~crashed /\ activeTab = "insights" /\ modelResults.present)
     => ModelInsightsName = KindName(modelResults.model)

====
